---------------------------- MODULE Spec2Model ----------------------------
(***************************************************************************)
(* Model of the App component of src/App.js: the push-notification         *)
(* registration run by the mount effect, the two notification listeners,   *)
(* the bounded notification history, and the clipboard / local-test        *)
(* handlers.                                                               *)
(*                                                                         *)
(* The component runs on one JavaScript thread: every handler runs to      *)
(* completion (React batches the state setters of one handler), and the    *)
(* async function registerForPushNotificationsAsync is cut at each await.  *)
(*                                                                         *)
(* Environment (the expo libraries, not part of the repository):           *)
(*   Device.isDevice and Platform.OS are fixed for the session;            *)
(*   getPermissionsAsync / requestPermissionsAsync answer with any status; *)
(*   getExpoPushTokenAsync answers with a token or rejects;                *)
(*   setNotificationChannelAsync answers.                                  *)
(* An entry's timestamp (new Date().toLocaleString(), line 81) is only     *)
(* rendered, never read by a handler, and is left out of the entries.      *)
(***************************************************************************)
EXTENDS Integers, Sequences, FiniteSets

\* ------------------------------------------------------------------ bounds
\* longest run of recordings since the last clear, history specification
MaxEvents == 11
\* the same for the whole-application specification
MaxEventsApp == 3
\* local test notifications scheduled and not yet delivered
MaxScheduled == 1

\* ------------------------------------------------------- program constants
\* prev.slice(0, 9): the end index of the slice kept on insertion
SliceEnd == 9
\* "Keep last 10": the capacity of the history
HistoryCapacity == 10

\* -------------------------------------------------------------- value sets
Null == <<>>
Some(x) == <<x>>

PermissionStatus == {"granted", "denied", "undetermined"}
Tokens == {"ExponentPushToken[1]", "ExponentPushToken[2]"}

EmulatorMsg == "Push notifications are not available on emulators. Please use a physical device."
PermissionMsg == "Permission not granted for push notifications!"
\* error.message of a rejected getExpoPushTokenAsync
TokenFetchMsg == "token fetch failed"

ClearedAlert == "Notification history cleared"
CopiedAlert == "Token copied to clipboard!"
NoTokenAlert == "No token available to copy"
ScheduledAlert == "Test notification will appear in 2 seconds"

\* Notifications the service can deliver.  A missing title / body is "",
\* a missing data payload is "null" (all falsy for the || of lines 78-80).
RemoteNotifs ==
  { [identifier |-> "a", title |-> "Hello", body |-> "World", data |-> "{k:v}"],
    [identifier |-> "b", title |-> "", body |-> "", data |-> "null"] }

\* content of the local test notification of sendTestNotification
LocalTest ==
  [identifier |-> "local", title |-> "Test Notification",
   body |-> "This is a local test notification!", data |-> "{testData}"]

Notifs == RemoteNotifs \cup {LocalTest}

Min(a, b) == IF a < b THEN a ELSE b

VARIABLES
  isDevice,            \* Device.isDevice
  platformOS,          \* Platform.OS
  expoPushToken,       \* useState('')
  notification,        \* useState(null)
  notificationHistory, \* useState([])
  errorMsg,            \* useState('')
  pc,                  \* position of the mount effect's registration promise
  existingStatus,      \* local of registerForPushNotificationsAsync
  finalStatus,         \* local of registerForPushNotificationsAsync
  token,               \* local of registerForPushNotificationsAsync
  thrown,              \* message of the error the promise rejected with
  subscribed,          \* the two listeners are registered
  calls,               \* registration calls issued to expo-notifications
  scheduled,           \* local notifications scheduled, not yet delivered
  clipboard,           \* system clipboard
  alert,               \* message of the last Alert.alert
  recorded             \* notifications handed to addToHistory since the last clear

vars == << isDevice, platformOS, expoPushToken, notification, notificationHistory,
           errorMsg, pc, existingStatus, finalStatus, token, thrown, subscribed,
           calls, scheduled, clipboard, alert, recorded >>

envVars == << isDevice, platformOS >>
regVars == << expoPushToken, errorMsg, pc, existingStatus, finalStatus, token,
              thrown, calls >>
histVars == << notification, notificationHistory, recorded >>

Init ==
  /\ isDevice \in BOOLEAN
  /\ platformOS \in {"android", "ios"}
  /\ expoPushToken = ""
  /\ notification = Null
  /\ notificationHistory = <<>>
  /\ errorMsg = ""
  /\ pc = "idle"
  /\ existingStatus = "unset"
  /\ finalStatus = "unset"
  /\ token = ""
  /\ thrown = ""
  /\ subscribed = FALSE
  /\ calls = <<>>
  /\ scheduled = 0
  /\ clipboard \in {"", "other text"}
  /\ alert = ""
  /\ recorded = <<>>


\* ------------------------------------------------------ history (75-93)
\* title || 'No Title', body || 'No Body', data || {}
OrDefault(v, d) == IF v = "" \/ v = "null" THEN d ELSE v

\* the entry built at lines 76-83
NewNotification(n) ==
  [ id |-> n.identifier,
    title |-> OrDefault(n.title, "No Title"),
    body |-> OrDefault(n.body, "No Body"),
    data |-> OrDefault(n.data, "{}"),
    rawNotification |-> n ]

\* prev.slice(0, end)
Slice(prev, end) == SubSeq(prev, 1, Min(end, Len(prev)))

\* addToHistory keeping one entry too many: prev.slice(0, 10)
addToHistory_SliceTen(prev, n) ==
  <<NewNotification(n)>> \o Slice(prev, SliceEnd + 1)

\* addToHistory skipping a notification whose id is already in the history
addToHistory_Dedup(prev, n) ==
  IF \E i \in 1..Len(prev) : prev[i].id = n.identifier
    THEN prev
    ELSE <<NewNotification(n)>> \o Slice(prev, SliceEnd)

\* the updater of line 85: prev => [newNotification, ...prev.slice(0, 9)]
addToHistory(prev, n) == <<NewNotification(n)>> \o Slice(prev, SliceEnd)

\* the body shared by the two listeners: setNotification, then addToHistory
Deliver(n) ==
  /\ notification' = Some(n)
  /\ notificationHistory' = addToHistory(notificationHistory, n)
  /\ recorded' = Append(recorded, n)

\* lines 46-54: a notification arrives while the app is in the foreground
notificationListener(n) ==
  /\ subscribed
  /\ Deliver(n)
  /\ UNCHANGED << envVars, regVars, subscribed, scheduled, clipboard, alert >>

\* responseListener recording the tap without setNotification
responseListener_NoSetNotification(n) ==
  /\ subscribed
  /\ notificationHistory' = addToHistory(notificationHistory, n)
  /\ recorded' = Append(recorded, n)
  /\ UNCHANGED << notification, envVars, regVars, subscribed, scheduled,
                  clipboard, alert >>

\* lines 57-66: the user taps a notification; response.notification is n
responseListener(n) ==
  /\ subscribed
  /\ Deliver(n)
  /\ UNCHANGED << envVars, regVars, subscribed, scheduled, clipboard, alert >>

\* clearHistory leaving the latest notification in place
clearHistory_KeepsLatest ==
  /\ notificationHistory' = <<>>
  /\ alert' = ClearedAlert
  /\ recorded' = <<>>
  /\ UNCHANGED << notification, envVars, regVars, subscribed, scheduled, clipboard >>

\* lines 89-93.  The Clear button is rendered only with a non-empty history
\* (line 348); the function itself has no guard and is modelled as written.
clearHistory ==
  /\ notificationHistory' = <<>>
  /\ notification' = Null
  /\ alert' = ClearedAlert
  /\ recorded' = <<>>
  /\ UNCHANGED << envVars, regVars, subscribed, scheduled, clipboard >>

\* ------------------------------------------------- registration (96-137)
\* RegisterBegin without the Device.isDevice check
RegisterBegin_NoDeviceCheck ==
  /\ pc' = "awaitGetPermissions"
  /\ calls' = Append(calls, "getPermissionsAsync")
  /\ UNCHANGED thrown

\* lines 97-105: up to the first await
RegisterBegin ==
  IF ~isDevice
    THEN /\ pc' = "rejected"
         /\ thrown' = EmulatorMsg
         /\ UNCHANGED calls
    ELSE /\ pc' = "awaitGetPermissions"
         /\ calls' = Append(calls, "getPermissionsAsync")
         /\ UNCHANGED thrown

\* CheckFinalStatus rejecting only an explicit denial
CheckFinalStatus_OnlyDenied(status) ==
  IF status = "denied"
    THEN /\ pc' = "rejected"
         /\ thrown' = PermissionMsg
         /\ UNCHANGED calls
    ELSE /\ pc' = "awaitGetExpoPushToken"
         /\ calls' = Append(calls, "getExpoPushTokenAsync")
         /\ UNCHANGED thrown

\* CheckFinalStatus without the check
CheckFinalStatus_NoCheck(status) ==
  /\ pc' = "awaitGetExpoPushToken"
  /\ calls' = Append(calls, "getExpoPushTokenAsync")
  /\ UNCHANGED thrown

\* lines 113-124: the check of finalStatus and the token request
CheckFinalStatus(status) ==
  IF status # "granted"
    THEN /\ pc' = "rejected"
         /\ thrown' = PermissionMsg
         /\ UNCHANGED calls
    ELSE /\ pc' = "awaitGetExpoPushToken"
         /\ calls' = Append(calls, "getExpoPushTokenAsync")
         /\ UNCHANGED thrown

\* lines 33-72: the mount effect starts the registration and subscribes
useEffect ==
  /\ pc = "idle"
  /\ RegisterBegin
  /\ subscribed' = TRUE
  /\ UNCHANGED << envVars, expoPushToken, errorMsg, existingStatus, finalStatus,
                  token, histVars, scheduled, clipboard, alert >>

\* lines 105-111: getPermissionsAsync answers with status
GetPermissionsResolved(status) ==
  /\ pc = "awaitGetPermissions"
  /\ existingStatus' = status
  /\ finalStatus' = status
  /\ IF status # "granted"
       THEN /\ pc' = "awaitRequestPermissions"
            /\ calls' = Append(calls, "requestPermissionsAsync")
            /\ UNCHANGED thrown
       ELSE CheckFinalStatus(status)
  /\ UNCHANGED << envVars, expoPushToken, errorMsg, token, subscribed, histVars,
                  scheduled, clipboard, alert >>

\* lines 109-115: requestPermissionsAsync answers with status
RequestPermissionsResolved(status) ==
  /\ pc = "awaitRequestPermissions"
  /\ finalStatus' = status
  /\ CheckFinalStatus(status)
  /\ UNCHANGED << envVars, expoPushToken, errorMsg, existingStatus, token,
                  subscribed, histVars, scheduled, clipboard, alert >>

\* GetExpoPushTokenResolved returning before the channel is configured
GetExpoPushTokenResolved_NoChannel(t) ==
  /\ pc = "awaitGetExpoPushToken"
  /\ token' = t
  /\ pc' = "resolved"
  /\ UNCHANGED << envVars, expoPushToken, errorMsg, existingStatus, finalStatus,
                  thrown, calls, subscribed, histVars, scheduled, clipboard, alert >>

\* lines 119-134: getExpoPushTokenAsync answers with data t
GetExpoPushTokenResolved(t) ==
  /\ pc = "awaitGetExpoPushToken"
  /\ token' = t
  /\ IF platformOS = "android"
       THEN /\ pc' = "awaitSetNotificationChannel"
            /\ calls' = Append(calls, "setNotificationChannelAsync")
       ELSE /\ pc' = "resolved"
            /\ UNCHANGED calls
  /\ UNCHANGED << envVars, expoPushToken, errorMsg, existingStatus, finalStatus,
                  thrown, subscribed, histVars, scheduled, clipboard, alert >>

\* lines 119-124: getExpoPushTokenAsync rejects
GetExpoPushTokenRejected ==
  /\ pc = "awaitGetExpoPushToken"
  /\ pc' = "rejected"
  /\ thrown' = TokenFetchMsg
  /\ UNCHANGED << envVars, expoPushToken, errorMsg, existingStatus, finalStatus,
                  token, calls, subscribed, histVars, scheduled, clipboard, alert >>

\* lines 128-136: setNotificationChannelAsync answers; return token
SetNotificationChannelResolved ==
  /\ pc = "awaitSetNotificationChannel"
  /\ pc' = "resolved"
  /\ UNCHANGED << envVars, expoPushToken, errorMsg, existingStatus, finalStatus,
                  token, thrown, calls, subscribed, histVars, scheduled,
                  clipboard, alert >>

\* lines 36-39: .then(token => setExpoPushToken(token))
thenHandler ==
  /\ pc = "resolved"
  /\ expoPushToken' = token
  /\ pc' = "settled"
  /\ UNCHANGED << envVars, errorMsg, existingStatus, finalStatus, token, thrown,
                  calls, subscribed, histVars, scheduled, clipboard, alert >>

\* catchHandler starting the registration over
catchHandler_Retry ==
  /\ pc = "rejected"
  /\ errorMsg' = thrown
  /\ pc' = "idle"
  /\ UNCHANGED << envVars, expoPushToken, existingStatus, finalStatus, token,
                  thrown, calls, subscribed, histVars, scheduled, clipboard, alert >>

\* lines 40-43: .catch(error => setErrorMsg(error.message))
catchHandler ==
  /\ pc = "rejected"
  /\ errorMsg' = thrown
  /\ pc' = "settled"
  /\ UNCHANGED << envVars, expoPushToken, existingStatus, finalStatus, token,
                  thrown, calls, subscribed, histVars, scheduled, clipboard, alert >>

\* ------------------------------------------- clipboard, local test (140-163)
\* copyTokenToClipboard without the test of expoPushToken
copyTokenToClipboard_NoTest ==
  /\ clipboard' = expoPushToken
  /\ alert' = CopiedAlert
  /\ UNCHANGED << envVars, regVars, subscribed, histVars, scheduled >>

\* lines 140-150.  The copy button is rendered only with a token (line 198);
\* the function itself tests expoPushToken and is modelled as written.
copyTokenToClipboard ==
  /\ IF expoPushToken # ""
       THEN /\ clipboard' = expoPushToken
            /\ alert' = CopiedAlert
       ELSE /\ alert' = NoTokenAlert
            /\ UNCHANGED clipboard
  /\ UNCHANGED << envVars, regVars, subscribed, histVars, scheduled >>

\* lines 153-163
sendTestNotification ==
  /\ scheduled' = scheduled + 1
  /\ alert' = ScheduledAlert
  /\ UNCHANGED << envVars, regVars, subscribed, histVars, clipboard >>

\* the local test notification fires (trigger of line 160) in the foreground
LocalTestFires ==
  /\ scheduled > 0
  /\ subscribed
  /\ scheduled' = scheduled - 1
  /\ Deliver(LocalTest)
  /\ UNCHANGED << envVars, regVars, subscribed, clipboard, alert >>

\* ------------------------------------------------------------ specifications
Registration ==
  \/ \E status \in PermissionStatus : GetPermissionsResolved(status)
  \/ \E status \in PermissionStatus : RequestPermissionsResolved(status)
  \/ \E t \in Tokens : GetExpoPushTokenResolved(t)
  \/ GetExpoPushTokenRejected
  \/ SetNotificationChannelResolved
  \/ thenHandler
  \/ catchHandler

\* the whole application
Next ==
  \/ useEffect
  \/ Registration
  \/ \E n \in RemoteNotifs : Len(recorded) < MaxEventsApp /\ notificationListener(n)
  \/ \E n \in RemoteNotifs : Len(recorded) < MaxEventsApp /\ responseListener(n)
  \/ Len(recorded) < MaxEventsApp /\ LocalTestFires
  \/ clearHistory
  \/ copyTokenToClipboard
  \/ scheduled < MaxScheduled /\ sendTestNotification

Spec == Init /\ [][Next]_vars

\* the history while the registration promise is pending
NextHistory ==
  \/ useEffect
  \/ \E n \in RemoteNotifs : Len(recorded) < MaxEvents /\ notificationListener(n)
  \/ \E n \in RemoteNotifs : Len(recorded) < MaxEvents /\ responseListener(n)
  \/ clearHistory

SpecHistory == Init /\ [][NextHistory]_vars

\* the whole application with the scheduling the runtime gives: the mount
\* effect runs, the then / catch callbacks of a settled promise run, and
\* setNotificationChannelAsync answers
SpecLive ==
  /\ Spec
  /\ WF_vars(useEffect)
  /\ WF_vars(SetNotificationChannelResolved)
  /\ WF_vars(thenHandler)
  /\ WF_vars(catchHandler)


\* ------------------------------------------------------------------ claims
Called(c) == \E i \in 1..Len(calls) : calls[i] = c

\* C1: notificationHistory holds exactly the notifications recorded since the
\* last clear (or since start), most recent first, cut to the 10 most recent:
\* its length is min(10, number recorded) and the 11th recording evicts the
\* oldest entry.
C1_HistoryIsLastTen ==
  /\ Len(notificationHistory) = Min(HistoryCapacity, Len(recorded))
  /\ \A i \in 1..Len(notificationHistory) :
       /\ notificationHistory[i].rawNotification = recorded[Len(recorded) - i + 1]
       /\ notificationHistory[i].id = recorded[Len(recorded) - i + 1].identifier

\* an 11th notification was recorded after a clear and the oldest, which
\* differs from the second oldest, is gone
C1_Witness ==
  /\ alert = ClearedAlert
  /\ Len(recorded) = HistoryCapacity + 1
  /\ Len(notificationHistory) = HistoryCapacity
  /\ recorded[1] # recorded[2]
  /\ notificationHistory[HistoryCapacity].rawNotification = recorded[2]

\* C2: clearHistory, applied in any state, leaves notificationHistory empty
\* and the latest notification absent.
C2_ClearEmpties ==
  [][clearHistory => (notificationHistory' = <<>> /\ notification' = Null)]_vars

\* clearHistory has acted after notifications were delivered
C2_Witness ==
  /\ subscribed
  /\ alert = ClearedAlert
  /\ notificationHistory = <<>>
  /\ notification = Null

\* C3: the latest notification is absent exactly when the history is empty,
\* and otherwise its identifier is the id of the head of the history.
C3_LatestIsHead ==
  /\ (notification = Null) <=> (notificationHistory = <<>>)
  /\ notification # Null =>
       /\ notification[1].identifier = notificationHistory[1].id
       /\ notification[1] = notificationHistory[1].rawNotification

\* after a clear, two different notifications were delivered
C3_Witness ==
  /\ alert = ClearedAlert
  /\ Len(notificationHistory) >= 2
  /\ notification # Null
  /\ notificationHistory[1].id # notificationHistory[2].id

\* on an emulator no call is issued, the token stays empty and the only
\* outcome of the registration is the emulator error
C4_NoCallOnEmulator ==
  ~isDevice =>
    /\ calls = <<>>
    /\ expoPushToken = ""
    /\ token = ""
    /\ pc \in {"idle", "rejected", "settled"}
    /\ pc # "idle" => thrown = EmulatorMsg
    /\ pc = "settled" => errorMsg = EmulatorMsg

\* C4: on an emulator the registration always ends with the emulator error
\* message set, the token is never set, and no permission query, permission
\* request, token request or channel call is ever issued.
C4_EmulatorUnsupported ==
  /\ []C4_NoCallOnEmulator
  /\ (~isDevice) ~> (pc = "settled" /\ errorMsg = EmulatorMsg)

\* the registration has ended on an emulator
C4_Witness ==
  /\ ~isDevice
  /\ pc = "settled"
  /\ errorMsg = EmulatorMsg

\* the final permission status is known and is not granted
FinalStatusNotGranted ==
  finalStatus \in PermissionStatus \ {"granted"} /\ pc # "awaitRequestPermissions"

\* with the final status not granted the promise is rejected with the
\* permission error, the token stays empty and no token is requested
C5_NoTokenWhenDenied ==
  (finalStatus \in PermissionStatus \ {"granted"} /\ pc # "awaitRequestPermissions") =>
    /\ isDevice
    /\ pc \in {"rejected", "settled"}
    /\ thrown = PermissionMsg
    /\ pc = "settled" => errorMsg = PermissionMsg
    /\ expoPushToken = ""
    /\ ~Called("getExpoPushTokenAsync")

\* C5: on a device, when the final permission status is not granted, the
\* registration ends with the permission error message set, the token
\* empty, and no token requested from the notification service.
C5_DeniedOutcome ==
  /\ []C5_NoTokenWhenDenied
  /\ FinalStatusNotGranted ~> (pc = "settled" /\ errorMsg = PermissionMsg)

\* the permission was undetermined, was requested and was not granted
C5_Witness ==
  /\ pc = "settled"
  /\ existingStatus = "undetermined"
  /\ finalStatus = "undetermined"
  /\ Called("requestPermissionsAsync")
  /\ errorMsg = PermissionMsg

\* C6: copyTokenToClipboard writes the clipboard iff a token is held, and
\* then writes that token; without a token it shows the no-token alert and
\* leaves the clipboard as it was.  Nothing else writes the clipboard.
C6_CopyIffToken ==
  [][ /\ clipboard' # clipboard => (expoPushToken # "" /\ clipboard' = expoPushToken)
      /\ copyTokenToClipboard =>
           IF expoPushToken # ""
             THEN clipboard' = expoPushToken /\ alert' = CopiedAlert
             ELSE clipboard' = clipboard /\ alert' = NoTokenAlert ]_vars

\* copy was pressed after the token fetch failed; the clipboard kept its text
C6_Witness ==
  /\ pc = "settled"
  /\ errorMsg = TokenFetchMsg
  /\ alert = NoTokenAlert
  /\ clipboard = "other text"

\* C7: a non-empty expoPushToken implies a physical device and a granted
\* final permission status, asked for before the token was requested.
C7_ReadyOnlyAfterChecks ==
  expoPushToken # "" =>
    /\ isDevice
    /\ finalStatus = "granted"
    /\ expoPushToken \in Tokens
    /\ \E i, j \in 1..Len(calls) :
         /\ i < j
         /\ calls[i] \in {"getPermissionsAsync", "requestPermissionsAsync"}
         /\ calls[j] = "getExpoPushTokenAsync"

\* Ready after the permission was requested and granted
C7_Witness ==
  /\ expoPushToken # ""
  /\ existingStatus = "denied"
  /\ finalStatus = "granted"

\* C8: the registration runs once and is never retried: once it has failed
\* the error stays, the token stays empty, and no further call is issued.
C8_NoRetry ==
  [][ /\ pc # "idle" => pc' # "idle"
      /\ (pc \in {"rejected", "settled"} /\ thrown # "") =>
           /\ pc' \in {"rejected", "settled"}
           /\ thrown' = thrown
           /\ pc' = "settled" => errorMsg' = thrown
           /\ expoPushToken' = ""
           /\ calls' = calls ]_vars

\* after the token fetch failed, a notification was recorded, the user
\* scheduled a local test and the error is still shown
C8_Witness ==
  /\ pc = "settled"
  /\ errorMsg = TokenFetchMsg
  /\ alert = ScheduledAlert
  /\ recorded # <<>>
  /\ Len(calls) = 3

\* once the service has returned a token the registration can only go on to
\* Ready with that token, the channel configured on android and only there
C9_TokenPath ==
  token # "" =>
    /\ pc \in {"awaitSetNotificationChannel", "resolved", "settled"}
    /\ thrown = ""
    /\ errorMsg = ""
    /\ pc = "settled" => expoPushToken = token
    /\ pc \in {"resolved", "settled"} =>
         (Called("setNotificationChannelAsync") <=> platformOS = "android")

C11_TapAddsOnlyIfAbsent ==
  [][ \A n \in Notifs :
        ( /\ responseListener(n)
          /\ \E i \in 1..Len(notificationHistory) :
               notificationHistory[i].id = n.identifier )
        => notificationHistory' = notificationHistory ]_vars

=============================================================================
